---- MODULE Spec2Model ----
(***************************************************************************)
(* Model of src/main.py: process_latest_valid_folder picks the latest      *)
(* partition that has control/merge.done, list_dirs_recursive walks its    *)
(* barrels/current subtree recording one gauge sample per directory, and   *)
(* the registry is pushed to the Pushgateway.                              *)
(*                                                                         *)
(* Strings that the code takes apart or compares character by character    *)
(* (paths, names, labels) are sequences of one-character strings.  The     *)
(* HDFS client and the Pushgateway are external: every call to them is an  *)
(* input of the step that makes it, drawn from the sets below.             *)
(***************************************************************************)
EXTENDS Naturals, Sequences, FiniteSets, TLC

\* ------------------------------------------------------------------ bounds
\* directories in the walked tree, the start path included
MaxDirs == 4
\* depth below the start path at which directories list no subdirectory
MaxDepth == 2
\* entries in one listing of the walk
MaxEntries == 2

\* ------------------------------------------------------- the input domains
\* names of the root's children: "1" < "10" < "9" as strings
PartNames == { <<"1">>, <<"1", "0">>, <<"9">> }
\* names of directories below the start path; the last one is  a\b
DirNames == { <<"a">>, <<"b">>, <<"a", "\\", "b">> }
FileNames == { <<"f">> }
Lengths == { 10, 50, 100 }
\* what client.list answers when it raises
FAIL == [ok |-> FALSE, entries |-> <<>>]
\* what client.list answers when it returns the entries
Listing(entries) == [ok |-> TRUE, entries |-> entries]

RootPath == <<"/", "r">>
ControlName == <<"c", "o", "n", "t", "r", "o", "l">>
BarrelsCurrent ==
    <<"b", "a", "r", "r", "e", "l", "s", "/", "c", "u", "r", "r", "e", "n", "t">>

Range(s) == { s[i] : i \in DOMAIN s }

DistinctNames(s) == \A i, j \in DOMAIN s : i # j => s[i].name # s[j].name

SeqsUpTo(S, n) == UNION { [1..k -> S] : k \in 0..n }

\* answers of client.list(root_path, status=True)
RootEntries == [name : PartNames, type : {"DIRECTORY", "FILE"}]
RootListings == { s \in SeqsUpTo(RootEntries, Cardinality(PartNames)) : DistinctNames(s) }

\* answers of client.list(control_path, status=True): entry names only matter
ControlListings ==
    { <<>>, <<"other.flag">>, <<"merge.done">>, <<"other.flag", "merge.done">>,
      <<"merge.done.tmp">> }

\* answers of client.list(path, status=True) inside the walk
WalkEntries ==
    [name : DirNames, type : {"DIRECTORY"}, length : {0}]
        \cup [name : FileNames, type : {"FILE"}, length : Lengths]
WalkListings ==
    { s \in SeqsUpTo(WalkEntries, MaxEntries) :
        DistinctNames(s) }

DirCount(s) == Cardinality({ i \in DOMAIN s : s[i].type = "DIRECTORY" })

\* ------------------------------------------------------------ string code
\* f"{path}/{name}"
JoinPath(path, name) == path \o <<"/">> \o name

\* code points of the characters that are compared
CodePoint(c) ==
    CASE c = "-" -> 45 [] c = "." -> 46 [] c = "/" -> 47
      [] c = "0" -> 48 [] c = "1" -> 49 [] c = "2" -> 50 [] c = "9" -> 57
      [] c = "\\" -> 92 [] c = "a" -> 97 [] c = "b" -> 98
      [] OTHER -> 122

\* Python's str.__lt__: first differing code point, a proper prefix is less
RECURSIVE StrLess(_, _)
StrLess(s, t) ==
    IF t = <<>> THEN FALSE
    ELSE IF s = <<>> THEN TRUE
    ELSE IF Head(s) = Head(t) THEN StrLess(Tail(s), Tail(t))
    ELSE CodePoint(Head(s)) < CodePoint(Head(t))

\* valid_folders[-1]: the sort forgotten
LatestOf_unsorted(folders) == folders[Len(folders)]

\* sorted(valid_folders)[-1]
LatestOf(folders) ==
    CHOOSE n \in Range(folders) : \A m \in Range(folders) : m = n \/ StrLess(m, n)

\* [x for x in path.split("/") if x]
RECURSIVE SplitAcc(_, _, _)
SplitAcc(s, cur, acc) ==
    IF s = <<>> THEN (IF cur = <<>> THEN acc ELSE Append(acc, cur))
    ELSE IF Head(s) = "/"
         THEN SplitAcc(Tail(s), <<>>, IF cur = <<>> THEN acc ELSE Append(acc, cur))
         ELSE SplitAcc(Tail(s), Append(cur, Head(s)), acc)
Split(s) == SplitAcc(s, <<>>, <<>>)

\* "/".join(parts)
RECURSIVE JoinAll(_)
JoinAll(parts) ==
    IF Len(parts) = 1 THEN parts[1]
    ELSE parts[1] \o <<"/">> \o JoinAll(Tail(parts))

\* len(os.path.commonprefix([a, b])) on lists of components
RECURSIVE CommonLen(_, _)
CommonLen(a, b) ==
    IF a = <<>> \/ b = <<>> \/ Head(a) # Head(b) THEN 0
    ELSE 1 + CommonLen(Tail(a), Tail(b))

\* os.path.relpath(path, start) for absolute, normalised paths
relpath(path, start) ==
    LET start_list == Split(start)
        path_list == Split(path)
        i == CommonLen(start_list, path_list)
        rel_list == [k \in 1..(Len(start_list) - i) |-> <<".", ".">>]
                        \o SubSeq(path_list, i + 1, Len(path_list))
    IN IF rel_list = <<>> THEN <<".">> ELSE JoinAll(rel_list)

\* str.replace("\\", "/")
ReplaceBackslash(s) == [i \in 1..Len(s) |-> IF s[i] = "\\" THEN "/" ELSE s[i]]

\* the label of lines 78-82
rel_path(path, base_path) ==
    LET rel == ReplaceBackslash(relpath(path, base_path))
    IN IF rel = <<".">> THEN <<"/">> ELSE <<"/">> \o rel

\* has_merge_done, given what client.list(control_path) answered
has_merge_done(answer) ==
    IF ~answer.ok THEN FALSE
    ELSE \E i \in DOMAIN answer.entries : answer.entries[i] = "merge.done"

\* ------------------------------------------------------------------ state
VARIABLES
    pc,             \* position in process_latest_valid_folder
    statuses,       \* its local: the root listing
    todo,           \* the entries its for loop has not yet taken
    valid_folders,  \* its local
    latest_folder,  \* its local
    folder_path,    \* its local: the start path of the walk
    registry,       \* the CollectorRegistry with the gauge's samples
    stack,          \* the frames of list_dirs_recursive, innermost last
    ret,            \* what the outermost list_dirs_recursive returned
    log,            \* the records written through logging
    pushes,         \* the calls of push_to_gateway, each with its batch
    result,         \* what process_latest_valid_folder returned
    control,        \* history: what client.list answered for each control path
    listed,         \* history: the walk's client.list calls and their answers
    sets            \* history: the walk's gauge .set calls

vars == << pc, statuses, todo, valid_folders, latest_folder, folder_path, registry,
           stack, ret, log, pushes, result, control, listed, sets >>

selectorVars == << statuses, todo, valid_folders, latest_folder, control >>
walkVars == << stack, ret, listed, sets >>

NoRegistry == [created |-> FALSE, samples |-> <<>>]

Init ==
    /\ pc = "list_root"
    /\ statuses = <<>>
    /\ todo = <<>>
    /\ valid_folders = <<>>
    /\ latest_folder = <<>>
    /\ folder_path = <<>>
    /\ registry = NoRegistry
    /\ stack = <<>>
    /\ ret = <<>>
    /\ log = <<>>
    /\ pushes = <<>>
    /\ result = "running"
    /\ control = <<>>
    /\ listed = <<>>
    /\ sets = <<>>

\* ------------------------------------------- process_latest_valid_folder
\* the root listing raises and the return of line 109 is missing
ListRootFail_continue ==
    /\ pc = "list_root"
    /\ log' = Append(log, <<"ERROR", "The path could not be reached">>)
    /\ registry' = [created |-> TRUE, samples |-> <<>>]
    /\ \E answer \in RootListings :
        /\ statuses' = answer
        /\ todo' = answer
    /\ pc' = "candidates"
    /\ UNCHANGED << valid_folders, latest_folder, control, folder_path, pushes, result >>
    /\ UNCHANGED << stack, ret, listed, sets >>

\* lines 105-109: the root listing raises
ListRootFail ==
    /\ pc = "list_root"
    /\ log' = Append(log, <<"ERROR", "The path could not be reached">>)
    /\ result' = "None"
    /\ pc' = "done"
    /\ UNCHANGED << folder_path, registry, pushes >>
    /\ UNCHANGED selectorVars
    /\ UNCHANGED walkVars

\* lines 105-116: the root listing succeeds, the registry and gauge are built
ListRootOk ==
    /\ pc = "list_root"
    /\ \E answer \in RootListings :
        /\ statuses' = answer
        /\ todo' = answer
    /\ registry' = [created |-> TRUE, samples |-> <<>>]
    /\ valid_folders' = <<>>
    /\ pc' = "candidates"
    /\ UNCHANGED << latest_folder, folder_path, log, pushes, result, control >>
    /\ UNCHANGED walkVars

\* lines 117-121, one iteration of the loop, has_merge_done included
TestCandidate ==
    /\ pc = "candidates"
    /\ todo # <<>>
    /\ LET item == Head(todo) IN
        IF item.type = "DIRECTORY"
        THEN \E answer \in { Listing(l) : l \in ControlListings } \cup {FAIL} :
                /\ control' = Append(control,
                        [path |-> JoinPath(JoinPath(RootPath, item.name), ControlName),
                         name |-> item.name, answer |-> answer])
                /\ valid_folders' = IF has_merge_done(answer)
                                    THEN Append(valid_folders, item.name)
                                    ELSE valid_folders
        ELSE UNCHANGED << control, valid_folders >>
    /\ todo' = Tail(todo)
    /\ UNCHANGED << pc, statuses, latest_folder, folder_path, registry, log, pushes,
                    result >>
    /\ UNCHANGED walkVars

\* lines 123-125 logging the message of line 108
NoValidFolders_error ==
    /\ pc = "candidates"
    /\ todo = <<>>
    /\ valid_folders = <<>>
    /\ log' = Append(log, <<"ERROR", "The path could not be reached">>)
    /\ result' = "None"
    /\ pc' = "done"
    /\ UNCHANGED << folder_path, registry, pushes >>
    /\ UNCHANGED << statuses, todo, valid_folders, latest_folder, control >>
    /\ UNCHANGED << stack, ret, listed, sets >>

\* lines 123-125 without the return: the empty registry is pushed
NoValidFolders_push ==
    /\ pc = "candidates"
    /\ todo = <<>>
    /\ valid_folders = <<>>
    /\ log' = Append(log, <<"INFO", "No folders with merge.done found.">>)
    /\ pc' = "push"
    /\ UNCHANGED << folder_path, registry, pushes, result >>
    /\ UNCHANGED << statuses, todo, valid_folders, latest_folder, control >>
    /\ UNCHANGED << stack, ret, listed, sets >>

\* lines 123-125
NoValidFolders ==
    /\ pc = "candidates"
    /\ todo = <<>>
    /\ valid_folders = <<>>
    /\ log' = Append(log, <<"INFO", "No folders with merge.done found.">>)
    /\ result' = "None"
    /\ pc' = "done"
    /\ UNCHANGED << folder_path, registry, pushes >>
    /\ UNCHANGED selectorVars
    /\ UNCHANGED walkVars

\* lines 127-128
Select ==
    /\ pc = "candidates"
    /\ todo = <<>>
    /\ valid_folders # <<>>
    /\ latest_folder' = LatestOf(valid_folders)
    /\ folder_path' = JoinPath(JoinPath(RootPath, LatestOf(valid_folders)), BarrelsCurrent)
    /\ pc' = "selected"
    /\ UNCHANGED << statuses, todo, valid_folders, control, registry, log, pushes,
                    result >>
    /\ UNCHANGED walkVars

\* lines 130-131: the call list_dirs_recursive(folder_path, ..., folder_path).
\* statuses, valid_folders and latest_folder are not read after line 128 and
\* are dropped here together with the history of the control listings.
StartWalk ==
    /\ pc = "selected"
    /\ log' = Append(log, <<"INFO", "Only latest folder is being browsed">>)
    /\ stack' = << [path |-> folder_path, at |-> "list", statuses |-> <<>>,
                    total_size |-> 0] >>
    /\ statuses' = <<>>
    /\ valid_folders' = <<>>
    /\ latest_folder' = <<>>
    /\ control' = <<>>
    /\ pc' = "walk"
    /\ UNCHANGED << todo, folder_path, registry, ret, pushes, result, listed, sets >>

\* ---------------------------------------------------- list_dirs_recursive
Top == stack[Len(stack)]

\* depth of a path below the start path
Depth(path) == Len(Split(path)) - Len(Split(folder_path))

\* directories known to exist below the start path, the start path included
KnownDirs ==
    1 + Cardinality({ <<i, j>> \in (DOMAIN listed) \X (1..MaxEntries) :
            /\ j \in DOMAIN listed[i].answer.entries
            /\ listed[i].answer.entries[j].type = "DIRECTORY" })

\* the value `size` comes back to the caller: line 73, or line 131
Return(size) ==
    IF Len(stack) = 1
    THEN /\ stack' = <<>>
         /\ ret' = <<size>>
         /\ pc' = "push"
    ELSE /\ stack' = [SubSeq(stack, 1, Len(stack) - 1) EXCEPT
                        ![Len(stack) - 1].total_size = @ + size]
         /\ UNCHANGED << ret, pc >>

\* client.list raises and the whole walk is given up
ListDirFail_abort ==
    /\ pc = "walk"
    /\ stack # <<>>
    /\ Top.at = "list"
    /\ listed' = Append(listed, [path |-> Top.path, answer |-> FAIL])
    /\ log' = Append(log, <<"WARNING", Top.path>>)
    /\ stack' = <<>>
    /\ ret' = <<0>>
    /\ pc' = "push"
    /\ UNCHANGED << folder_path, registry, pushes, result, sets >>
    /\ UNCHANGED << statuses, todo, valid_folders, latest_folder, control >>

\* client.list raises and the listing is attempted again
ListDirFail_retry ==
    /\ pc = "walk"
    /\ stack # <<>>
    /\ Top.at = "list"
    /\ listed' = Append(listed, [path |-> Top.path, answer |-> FAIL])
    /\ log' = Append(log, <<"WARNING", Top.path>>)
    /\ UNCHANGED << pc, stack, ret, folder_path, registry, pushes, result, sets >>
    /\ UNCHANGED << statuses, todo, valid_folders, latest_folder, control >>

\* client.list raises and a sample of 0 is recorded before 0 is returned
ListDirFail_records ==
    /\ pc = "walk"
    /\ stack # <<>>
    /\ Top.at = "list"
    /\ listed' = Append(listed, [path |-> Top.path, answer |-> FAIL])
    /\ log' = Append(log, <<"WARNING", Top.path>>)
    /\ LET label == rel_path(Top.path, folder_path) IN
        /\ registry' = [registry EXCEPT !.samples =
                [l \in (DOMAIN registry.samples) \cup {label} |->
                    IF l = label THEN 0 ELSE registry.samples[l]]]
        /\ sets' = Append(sets, [path |-> Top.path, label |-> label, value |-> 0])
    /\ Return(0)
    /\ UNCHANGED << folder_path, pushes, result >>
    /\ UNCHANGED << statuses, todo, valid_folders, latest_folder, control >>

\* lines 63-67: client.list raises, a warning is logged, 0 is returned
ListDirFail ==
    /\ pc = "walk"
    /\ stack # <<>>
    /\ Top.at = "list"
    /\ listed' = Append(listed, [path |-> Top.path, answer |-> FAIL])
    /\ log' = Append(log, <<"WARNING", Top.path>>)
    /\ Return(0)
    /\ UNCHANGED << folder_path, registry, pushes, result, sets >>
    /\ UNCHANGED selectorVars

\* line 64: client.list answers
ListDirOk ==
    /\ pc = "walk"
    /\ stack # <<>>
    /\ Top.at = "list"
    /\ \E answer \in WalkListings :
        /\ DirCount(answer) <= MaxDirs - KnownDirs
        /\ Depth(Top.path) >= MaxDepth => DirCount(answer) = 0
        /\ listed' = Append(listed, [path |-> Top.path, answer |-> Listing(answer)])
        /\ stack' = [stack EXCEPT ![Len(stack)].at = "loop",
                                  ![Len(stack)].statuses = answer]
    /\ UNCHANGED << pc, folder_path, registry, ret, log, pushes, result, sets >>
    /\ UNCHANGED selectorVars

\* lines 69-72: the next entry is a directory, the recursive call
EnterDir ==
    /\ pc = "walk"
    /\ stack # <<>>
    /\ Top.at = "loop"
    /\ Top.statuses # <<>>
    /\ Head(Top.statuses).type = "DIRECTORY"
    /\ stack' = Append([stack EXCEPT ![Len(stack)].statuses = Tail(@)],
                       [path |-> JoinPath(Top.path, Head(Top.statuses).name),
                        at |-> "list", statuses |-> <<>>, total_size |-> 0])
    /\ UNCHANGED << pc, folder_path, registry, ret, log, pushes, result, listed, sets >>
    /\ UNCHANGED selectorVars

\* lines 69-70, 74-76: the next entry is not a directory
VisitFile ==
    /\ pc = "walk"
    /\ stack # <<>>
    /\ Top.at = "loop"
    /\ Top.statuses # <<>>
    /\ Head(Top.statuses).type # "DIRECTORY"
    /\ stack' = [stack EXCEPT ![Len(stack)].statuses = Tail(@),
                              ![Len(stack)].total_size = @ + Head(Top.statuses).length]
    /\ UNCHANGED << pc, folder_path, registry, ret, log, pushes, result, listed, sets >>
    /\ UNCHANGED selectorVars

\* file_size_metric.labels(folder=label).set(value)
GaugeSet(reg, label, value) ==
    [reg EXCEPT !.samples =
        [l \in (DOMAIN reg.samples) \cup {label} |->
            IF l = label THEN value ELSE reg.samples[l]]]

\* lines 78-89: the loop is over; label, gauge sample, log, return
RecordAndReturn ==
    /\ pc = "walk"
    /\ stack # <<>>
    /\ Top.at = "loop"
    /\ Top.statuses = <<>>
    /\ LET label == rel_path(Top.path, folder_path) IN
        /\ registry' = GaugeSet(registry, label, Top.total_size)
        /\ sets' = Append(sets, [path |-> Top.path, label |-> label,
                                 value |-> Top.total_size])
        /\ log' = Append(log, <<"INFO", "Folder", label, Top.total_size>>)
    /\ Return(Top.total_size)
    /\ UNCHANGED << folder_path, pushes, result, listed >>
    /\ UNCHANGED selectorVars

\* ------------------------------------------------------ push_to_gateway
\* lines 133-136: the push succeeds
PushOk ==
    /\ pc = "push"
    /\ pushes' = Append(pushes, [batch |-> registry.samples, ok |-> TRUE])
    /\ log' = Append(log, <<"INFO", "Metrics were successfully pushed">>)
    /\ result' = "None"
    /\ pc' = "done"
    /\ UNCHANGED << folder_path, registry >>
    /\ UNCHANGED selectorVars
    /\ UNCHANGED walkVars

\* the push raises and is attempted again
PushFail_retry ==
    /\ pc = "push"
    /\ pushes' = Append(pushes, [batch |-> registry.samples, ok |-> FALSE])
    /\ log' = Append(log, <<"ERROR", "An error occured while pushing the metrics">>)
    /\ UNCHANGED << pc, result, folder_path, registry >>
    /\ UNCHANGED << statuses, todo, valid_folders, latest_folder, control >>
    /\ UNCHANGED << stack, ret, listed, sets >>

\* lines 133-138: the push raises
PushFail ==
    /\ pc = "push"
    /\ pushes' = Append(pushes, [batch |-> registry.samples, ok |-> FALSE])
    /\ log' = Append(log, <<"ERROR", "An error occured while pushing the metrics">>)
    /\ result' = "None"
    /\ pc' = "done"
    /\ UNCHANGED << folder_path, registry >>
    /\ UNCHANGED selectorVars
    /\ UNCHANGED walkVars

Next ==
    \/ ListRootFail
    \/ ListRootOk
    \/ TestCandidate
    \/ NoValidFolders
    \/ Select
    \/ StartWalk
    \/ ListDirFail
    \/ ListDirOk
    \/ EnterDir
    \/ VisitFile
    \/ RecordAndReturn
    \/ PushOk
    \/ PushFail

Spec == Init /\ [][Next]_vars

\* ------------------------------------------------- notions of the claims
\* the outermost list_dirs_recursive has returned
WalkDone == ret # <<>>

\* path p is directory d or lies below it
IsUnder(p, d) ==
    \/ p = d
    \/ (Len(p) > Len(d) /\ SubSeq(p, 1, Len(d) + 1) = d \o <<"/">>)

\* bytes of the file entries of one listing
RECURSIVE FileBytes(_)
FileBytes(entries) ==
    IF entries = <<>> THEN 0
    ELSE (IF Head(entries).type = "FILE" THEN Head(entries).length ELSE 0)
            + FileBytes(Tail(entries))

\* bytes of all files seen at or below d, from the i-th listing call on
RECURSIVE BytesUnder(_, _)
BytesUnder(d, i) ==
    IF i > Len(listed) THEN 0
    ELSE (IF listed[i].answer.ok /\ IsUnder(listed[i].path, d)
          THEN FileBytes(listed[i].answer.entries) ELSE 0) + BytesUnder(d, i + 1)
SubtreeBytes(d) == BytesUnder(d, 1)

\* bytes of the file entries of all listings that succeeded, from the i-th on
RECURSIVE BytesListed(_)
BytesListed(i) ==
    IF i > Len(listed) THEN 0
    ELSE FileBytes(listed[i].answer.entries) + BytesListed(i + 1)

OkCalls == { i \in DOMAIN listed : listed[i].answer.ok }
FailedCalls == { i \in DOMAIN listed : ~listed[i].answer.ok }

\* every DIRECTORY entry of the i-th listing has been listed in its turn
ChildrenListed(i) ==
    \A j \in DOMAIN listed[i].answer.entries :
        listed[i].answer.entries[j].type = "DIRECTORY" =>
            \E k \in DOMAIN listed :
                listed[k].path = listed[i].path \o <<"/">> \o listed[i].answer.entries[j].name

\* what the call for directory p returned: its recorded total, 0 without one
Returned(p) ==
    IF \E s \in DOMAIN sets : sets[s].path = p
    THEN sets[CHOOSE s \in DOMAIN sets : sets[s].path = p].value
    ELSE 0

\* the totals returned for the DIRECTORY entries of a listing of path
RECURSIVE ChildTotals(_, _)
ChildTotals(path, entries) ==
    IF entries = <<>> THEN 0
    ELSE (IF Head(entries).type = "DIRECTORY"
          THEN Returned(path \o <<"/">> \o Head(entries).name) ELSE 0)
            + ChildTotals(path, Tail(entries))

\* s is less than t in the order of strings, stated without recursion
LexLess(s, t) ==
    \E k \in 0..Len(s) :
        /\ k <= Len(t)
        /\ SubSeq(s, 1, k) = SubSeq(t, 1, k)
        /\ \/ (k = Len(s) /\ k < Len(t))
           \/ (k < Len(s) /\ k < Len(t) /\ CodePoint(s[k + 1]) < CodePoint(t[k + 1]))

\* the root's children of kind DIRECTORY whose control listing succeeded and
\* holds an entry named merge.done
EligibleNames ==
    { statuses[i].name : i \in
        { k \in DOMAIN statuses :
            /\ statuses[k].type = "DIRECTORY"
            /\ \E c \in DOMAIN control :
                /\ control[c].path =
                     RootPath \o <<"/">> \o statuses[k].name \o <<"/">> \o ControlName
                /\ control[c].answer.ok
                /\ "merge.done" \in Range(control[c].answer.entries) } }

\* the loop over the root's children is over and none is eligible
NoEligible == pc = "candidates" /\ todo = <<>> /\ EligibleNames = {}

\* the root listing failed: the error of line 108 opens the log
RootFailed == log # <<>> /\ log[1] = <<"ERROR", "The path could not be reached">>

\* ------------------------------------------------------------- the claims
\* C1: when every listing succeeds, after the walk returns the reading under
\* each directory's label is the byte total of all files in its subtree, and
\* the returned value is the reading under "/".
C1_ReadingIsSubtreeBytes ==
    (WalkDone /\ FailedCalls = {}) =>
        /\ \A i \in DOMAIN listed : ChildrenListed(i)
        /\ \A i \in DOMAIN listed :
            LET label == rel_path(listed[i].path, folder_path) IN
                /\ label \in DOMAIN registry.samples
                /\ registry.samples[label] = SubtreeBytes(listed[i].path)
        /\ ret[1] = registry.samples[<<"/">>]

\* C2: the selected name is the greatest, in string order, of the root's
\* DIRECTORY children whose control listing succeeded and names merge.done;
\* every DIRECTORY child is tested, no other child is; the walk starts at
\* <root>/<selected>/barrels/current.
C2_LatestValidSelected ==
    /\ pc = "selected" =>
        /\ latest_folder \in EligibleNames
        /\ \A n \in EligibleNames : n = latest_folder \/ LexLess(n, latest_folder)
        /\ folder_path =
             RootPath \o <<"/">> \o latest_folder \o <<"/">> \o BarrelsCurrent
    /\ (pc = "selected" \/ (pc = "candidates" /\ todo = <<>>)) =>
        \A i \in DOMAIN statuses :
            statuses[i].type = "DIRECTORY" <=>
                \E c \in DOMAIN control : control[c].name = statuses[i].name
    /\ (pc = "walk" /\ listed = <<>>) => (Len(stack) = 1 /\ stack[1].path = folder_path)
    /\ listed # <<>> => listed[1].path = folder_path

\* C2 witness: "1" without control listing, "10" with merge.done, "9" with
\* only other.flag; "10" is selected.
C2_Witness ==
    /\ pc = "selected"
    /\ latest_folder = <<"1", "0">>
    /\ Len(statuses) = 3
    /\ \E c1, c9 \in DOMAIN control :
        /\ control[c1].name = <<"1">> /\ ~control[c1].answer.ok
        /\ control[c9].name = <<"9">> /\ control[c9].answer.ok
        /\ control[c9].answer.entries = <<"other.flag">>

C4_FailureTolerated ==
    (WalkDone /\ FailedCalls # {}) =>
        /\ \A i \in DOMAIN listed : ChildrenListed(i)
        /\ \A i \in OkCalls : \E s \in DOMAIN sets :
            /\ sets[s].path = listed[i].path
            /\ sets[s].value = SubtreeBytes(listed[i].path)
        /\ ret[1] = SubtreeBytes(folder_path)

\* C4 witness: x fails, its sibling listed after it holds a file, the start
\* path's total is positive.
C4_Witness ==
    /\ WalkDone
    /\ ret[1] > 0
    /\ \E i \in FailedCalls : \E k \in OkCalls :
        /\ i < k
        /\ listed[i].path # folder_path
        /\ listed[k].path # folder_path
        /\ ~IsUnder(listed[k].path, listed[i].path)
        /\ ~IsUnder(listed[i].path, listed[k].path)
        /\ FileBytes(listed[k].answer.entries) > 0

\* C5 as stated: the value returned tells the outcome.
C5_Original ==
    pc = "done" =>
        \/ (pushes # <<>> /\ pushes[1].ok /\ result = "success")
        \/ (registry.created /\ pushes = <<>> /\ result = "skipped")
        \/ (~registry.created /\ result = "fatal")

\* C5 amended: None is returned whatever the outcome; the last log record
\* tells the outcomes apart, a failed push being a fourth one.
C5_LogTellsOutcome ==
    pc = "done" =>
        /\ result = "None"
        /\ LET last == log[Len(log)] IN
            /\ (~registry.created)
                  <=> last = <<"ERROR", "The path could not be reached">>
            /\ (registry.created /\ pushes = <<>>)
                  <=> last = <<"INFO", "No folders with merge.done found.">>
            /\ (pushes # <<>> /\ pushes[1].ok)
                  <=> last = <<"INFO", "Metrics were successfully pushed">>
            /\ (pushes # <<>> /\ ~pushes[1].ok)
                  <=> last = <<"ERROR", "An error occured while pushing the metrics">>

C5_Witness ==
    /\ pc = "done"
    /\ result = "None"
    /\ registry.created
    /\ pushes = <<>>
    /\ statuses # <<>>

\* C6 as stated: with no eligible directory no batch is ever constructed,
\* nothing is listed by the walk, no reading is recorded, nothing is pushed.
C6_Original ==
    [][NoEligible =>
        /\ ~registry.created
        /\ pc' = "done"
        /\ ~registry'.created
        /\ listed' = <<>> /\ sets' = <<>> /\ pushes' = <<>>]_vars

\* C6 amended: with no eligible directory the registry has been constructed
\* but stays empty; the run ends at once, the walk lists nothing, no reading
\* is recorded, nothing is pushed, and nothing happens after the end.
C6_NothingPublished ==
    [][/\ NoEligible =>
            /\ registry.created /\ registry.samples = <<>>
            /\ listed = <<>> /\ sets = <<>> /\ pushes = <<>> /\ stack = <<>>
            /\ pc' = "done"
            /\ registry' = registry
            /\ listed' = <<>> /\ sets' = <<>> /\ pushes' = <<>> /\ stack' = <<>>
       /\ pc # "done"]_vars

C6_Witness ==
    /\ pc = "done"
    /\ EligibleNames = {}
    /\ \E c \in DOMAIN control : control[c].answer.ok
    /\ \E c \in DOMAIN control : ~control[c].answer.ok
    /\ log[Len(log)] = <<"INFO", "No folders with merge.done found.">>

\* C7: when the root listing fails the run is over with only the error
\* logged: no control path listed, no candidate tested or selected, no
\* registry, no walk, no reading, no push.
C7_RootFailureAborts ==
    RootFailed =>
        /\ pc = "done"
        /\ Len(log) = 1
        /\ statuses = <<>> /\ todo = <<>> /\ control = <<>>
        /\ valid_folders = <<>> /\ latest_folder = <<>> /\ folder_path = <<>>
        /\ registry = NoRegistry
        /\ stack = <<>> /\ listed = <<>> /\ sets = <<>> /\ ret = <<>>
        /\ pushes = <<>>

C7_Witness == RootFailed /\ pc = "done" /\ result = "None"

\* C8 as stated: a directory is recorded after all its descendants, and no
\* label is ever set a second time.
C8_PostOrderAndFinal ==
    /\ \A i, j \in DOMAIN sets :
        i < j => ~(IsUnder(sets[j].path, sets[i].path) /\ sets[j].path # sets[i].path)
    /\ \A i, j \in DOMAIN sets : i # j => sets[i].label # sets[j].label

\* C9: push_to_gateway is called at most once, only in the last step of a run
\* whose walk has returned, with the registry's samples as they stay, which
\* hold the last value set for every label; a run that selected a partition
\* has pushed exactly once when it is over, whether the push failed or not.
C9_PushedOnceAfterWalk ==
    /\ Len(pushes) <= 1
    /\ pc # "done" => pushes = <<>>
    /\ (pc = "done" /\ folder_path # <<>>) => Len(pushes) = 1
    /\ pushes # <<>> =>
        /\ folder_path # <<>>
        /\ stack = <<>>
        /\ WalkDone
        /\ pushes[1].batch = registry.samples
        /\ \A i \in DOMAIN sets : sets[i].label \in DOMAIN pushes[1].batch
        /\ \A l \in DOMAIN pushes[1].batch : \E i \in DOMAIN sets :
            /\ sets[i].label = l
            /\ sets[i].value = pushes[1].batch[l]
            /\ \A j \in DOMAIN sets : j > i => sets[j].label # l

C9_Witness ==
    /\ pc = "done"
    /\ pushes # <<>>
    /\ ~pushes[1].ok
    /\ Len(sets) >= 2
    /\ FailedCalls # {}

\* C10: no path is listed twice; the value returned for the start path is the
\* byte total of the file entries of the listings that succeeded; the reading
\* recorded for a directory is the bytes of the files of its one listing plus
\* the totals returned for the DIRECTORY entries of that listing.
C10_ListedOnceAndSummed ==
    /\ \A i, j \in DOMAIN listed : listed[i].path = listed[j].path => i = j
    /\ WalkDone => ret[1] = BytesListed(1)
    /\ \A s \in DOMAIN sets : \E i \in OkCalls :
        /\ listed[i].path = sets[s].path
        /\ ChildrenListed(i)
        /\ sets[s].value = FileBytes(listed[i].answer.entries)
                            + ChildTotals(listed[i].path, listed[i].answer.entries)

C10_Witness ==
    /\ WalkDone
    /\ FailedCalls # {}
    /\ Cardinality(OkCalls) >= 3
    /\ ret[1] >= 60
====
